---- MODULE Spec2Model ----
(***************************************************************************)
(* Model of RelationAgent (src/src/agents/relation_agent.py): the engine   *)
(* that builds a directed knowledge graph from a list of paper records and *)
(* analyses it.  The agent owns one networkx DiGraph (self.graph) and one  *)
(* threshold (self.similarity_threshold); build_knowledge_graph clears the *)
(* graph and rebuilds it from its arguments.  The module also models the   *)
(* agent's instance shared by overlapping invocations, the task table of   *)
(* SQLiteManager (src/src/database/sqlite_manager.py) and the tokens of    *)
(* EncryptionManager (src/src/utils/encryption.py); each has its own       *)
(* specification below, which leaves the variables of the others idle.     *)
(*                                                                         *)
(* Representation                                                          *)
(*   paper   record [paperId, title, abstract, year, quality_score,        *)
(*           references, citations]; "" stands for an absent/empty string, *)
(*           Null for a title whose value is None, year 0 for an           *)
(*           absent/None/0 year, quality_score 0 for absent.               *)
(*   graph   record [nodes, attr, order, edges]: nodes is the sequence of  *)
(*           node ids in insertion order (networkx keeps dict order), attr *)
(*           maps a node id to its attribute record, order is the sequence *)
(*           of edges <<u,v>> in insertion order, edges maps an edge to    *)
(*           [type, weight].                                               *)
(*   similarity values and the threshold are in tenths (3 stands for 0.3). *)
(* Results of third-party libraries (scikit-learn TF-IDF cosine, the       *)
(* python-louvain partition, networkx centralities) are not repository     *)
(* code: they are inputs of the model, drawn with the arguments.           *)
(***************************************************************************)
EXTENDS Integers, Sequences, FiniteSets, TLC

VARIABLES
    papers,                 \* argument: the caller's document list
    include_citations,      \* argument
    include_similarity,     \* argument
    max_nodes,              \* argument: <<>> for None, <<n>> for the integer n
    similarity_threshold,   \* self.similarity_threshold, in tenths
    sklearn,                \* library outcome: [fails, sim]
    louvain,                \* library outcome: "ok", "ImportError", "Exception"
    nx_centrality,          \* library outcome: [degree, betweenness, pagerank]
    graph,                  \* self.graph
    result,                 \* the value returned by the last invocation
    key_nodes,              \* [top_n, list]: last direct _identify_key_nodes call
    pc,                     \* "called": an invocation is pending; "returned";
                            \* "raised": it ended with an exception
    invocations,            \* history: invocations the instance has finished
    threads,                \* overlapping invocations: thread -> [papers, pc, result]
    cancelled,              \* thread -> step at which its task was cancelled ("" none)
    tasks,                  \* the tasks table: task_id -> row
    requested,              \* history: task_id -> arguments of create / last update
    fetched,                \* the answer of the last get_task call
    now,                    \* int(time.time()), in whole seconds
    token,                  \* the last generated token (None before)
    issued,                 \* history: arguments and time of the last generate_token
    verified,               \* [at, value]: the last verify_token call
    direct,                 \* [method, arg, partition, value]: last direct call
    done,                   \* the analyses run so far, each with its output
    cursor,                 \* papers the loop of the running build step has handled
    research_tasks,         \* CoordinatorAgent.tasks: task_id -> task
    cancel_returned,        \* history: task ids cancel_task returned True for
    requests,               \* RateLimiter.requests: key -> list of request times
    lock,                   \* RateLimiter.lock: None, or <<thread>> holding it
    callers,                \* thread -> [pc, key, current_time] of its is_allowed
    granted                 \* history: key -> times of the calls that returned True

agentVars == <<papers, include_citations, include_similarity, max_nodes,
               similarity_threshold, sklearn, louvain, nx_centrality,
               graph, result, key_nodes, pc, invocations>>
threadVars == <<threads, cancelled>>
storeVars == <<tasks, requested, fetched>>
tokenVars == <<now, token, issued, verified>>
callVars == <<direct, done, cursor>>
coordinatorVars == <<research_tasks, cancel_returned>>
limiterVars == <<requests, lock, callers, granted>>

vars == <<agentVars, threadVars, storeVars, tokenVars,
          callVars, coordinatorVars, limiterVars>>

(***************************************************************************)
(* Bounds of the model and value domains.                                  *)
(***************************************************************************)
MaxDocs == 2
MaxLinks == 1
MaxTopN == 2

Ids == {"a", "b", "c"}
TwoIds == {"a", "b"}
Titles == {"", "a", "t"}
Abstracts == {"", "s1", "s2"}
Years == {0, 2010, 2020}
Qualities == {60, 90}

DefaultThreshold == 3
SimOne == 10
CitationWeight == 10
SimValues == {0, DefaultThreshold - 1, DefaultThreshold, SimOne}
Thresholds == {DefaultThreshold - 1, DefaultThreshold, DefaultThreshold + 1}

DefaultTopN == 10
DefaultMaxClusters == 10
DefaultMaxPaths == 5
MemberCap == 10
SamplePerYear == 3

None == <<>>

\* a title whose value is None (the key is present, the value null)
Null == "<None>"

(***************************************************************************)
(* Generic helpers for Python list semantics.                              *)
(***************************************************************************)
Min(a, b) == IF a <= b THEN a ELSE b

Range(s) == {s[i] : i \in DOMAIN s}

\* s[:n] for an integer n (negative n counts from the end)
Prefix(s, n) ==
    LET k == IF n >= 0 THEN Min(n, Len(s))
             ELSE IF Len(s) + n > 0 THEN Len(s) + n ELSE 0
    IN  SubSeq(s, 1, k)

\* sorted(s, key = ..., reverse = True), key[i] being the key of s[i]:
\* stable, equal keys keep input order
SortedDesc(s, key) ==
    LET rank(i) == Cardinality({j \in DOMAIN s :
                       key[j] > key[i] \/ (key[j] = key[i] /\ j < i)}) + 1
    IN  [r \in DOMAIN s |-> s[CHOOSE i \in DOMAIN s : rank(i) = r]]

(***************************************************************************)
(* Paper records.                                                          *)
(***************************************************************************)
\* paper.get('paperId') or paper.get('title', ''): Null when the id is
\* absent and the title is None
PaperId(paper) == IF paper.paperId # "" THEN paper.paperId ELSE paper.title

QualityScore(paper) == paper.quality_score

\* text_parts of _add_similarity_edges: the non-empty ones of title, abstract
TextParts(paper) ==
    (IF paper.title # "" /\ paper.title # Null THEN <<paper.title>> ELSE <<>>)
        \o (IF paper.abstract # "" THEN <<paper.abstract>> ELSE <<>>)

(***************************************************************************)
(* The graph (networkx.DiGraph).                                           *)
(***************************************************************************)
EmptyGraph == [nodes |-> <<>>, attr |-> <<>>, order |-> <<>>, edges |-> <<>>]

NodeSet(G) == Range(G.nodes)
EdgeSet(G) == DOMAIN G.edges
NumberOfNodes(G) == Len(G.nodes)
NumberOfEdges(G) == Cardinality(EdgeSet(G))

\* G.add_node(n, **attrs): a new node is appended, an existing one updated
AddNode(G, n, attrs) ==
    [G EXCEPT !.nodes = IF n \in NodeSet(G) THEN @ ELSE Append(@, n),
              !.attr  = [m \in NodeSet(G) \cup {n} |->
                            IF m = n THEN attrs ELSE G.attr[m]]]

NoAttrs == [title |-> "", year |-> 0, abstract |-> "", quality_score |-> 0]

EnsureNode(G, n) == IF n \in NodeSet(G) THEN G ELSE AddNode(G, n, NoAttrs)

\* G.add_edge(u, v, type=, weight=): endpoints are created when missing,
\* the attributes of an existing edge u -> v are overwritten in place
AddEdge(G, u, v, type, weight) ==
    LET H == EnsureNode(EnsureNode(G, u), v)
    IN  [H EXCEPT !.order = IF <<u, v>> \in EdgeSet(G) THEN @ ELSE Append(@, <<u, v>>),
                  !.edges = [e \in EdgeSet(G) \cup {<<u, v>>} |->
                                IF e = <<u, v>>
                                THEN [type |-> type, weight |-> weight]
                                ELSE G.edges[e]]]

\* G.degree(n): in-degree plus out-degree (a self-loop counts twice)
Degree(G, n) ==
    Cardinality({e \in EdgeSet(G) : e[1] = n}) + Cardinality({e \in EdgeSet(G) : e[2] = n})

\* variant: the self-loops are left out
EdgeListNoLoops(G) == SelectSeq(G.order, LAMBDA e : e[1] # e[2])

\* G.edges(): by source in node order, then by insertion order of the target
EdgeList(G) ==
    LET bySource(n) == SelectSeq(G.order, LAMBDA e : e[1] = n)
        RECURSIVE walk(_)
        walk(i) == IF i > Len(G.nodes) THEN <<>>
                   ELSE bySource(G.nodes[i]) \o walk(i + 1)
    IN  walk(1)

(***************************************************************************)
(* build_knowledge_graph, step by step.                                    *)
(***************************************************************************)
\* lines 52-59: "if max_nodes and len(papers) > max_nodes"
Truncate(docs, limit) ==
    IF limit # None /\ limit[1] # 0 /\ Len(docs) > limit[1]
    THEN Prefix(SortedDesc(docs, [i \in DOMAIN docs |-> QualityScore(docs[i])]), limit[1])
    ELSE docs

NodeAttrs(paper) ==
    [title |-> paper.title, year |-> paper.year,
     abstract |-> paper.abstract, quality_score |-> paper.quality_score]

RECURSIVE AddNodes(_, _)
AddNodes(G, docs) ==
    IF docs = <<>> THEN G
    ELSE AddNodes(AddNode(G, PaperId(Head(docs)), NodeAttrs(Head(docs))), Tail(docs))

\* variant: an entry is used without the membership test on paper_ids
RECURSIVE AddCitationLinksUnchecked(_, _, _, _, _)
AddCitationLinksUnchecked(G, paper_ids, paper_id, links, outgoing) ==
    IF links = {} THEN G
    ELSE LET l == CHOOSE x \in links : TRUE
             H == IF l # ""
                  THEN IF outgoing THEN AddEdge(G, paper_id, l, "citation", CitationWeight)
                                   ELSE AddEdge(G, l, paper_id, "citation", CitationWeight)
                  ELSE G
         IN  AddCitationLinksUnchecked(H, paper_ids, paper_id, links \ {l}, outgoing)

\* one "for ref in references" / "for cit in citations" loop: an entry is
\* used when it is non-empty and in paper_ids (the node set before the loops)
RECURSIVE AddCitationLinks(_, _, _, _, _)
AddCitationLinks(G, paper_ids, paper_id, links, outgoing) ==
    IF links = {} THEN G
    ELSE LET l == CHOOSE x \in links : TRUE
             H == IF l # "" /\ l \in paper_ids
                  THEN IF outgoing THEN AddEdge(G, paper_id, l, "citation", CitationWeight)
                                   ELSE AddEdge(G, l, paper_id, "citation", CitationWeight)
                  ELSE G
         IN  AddCitationLinks(H, paper_ids, paper_id, links \ {l}, outgoing)

RECURSIVE AddCitationEdgesFrom(_, _, _)
AddCitationEdgesFrom(G, paper_ids, docs) ==
    IF docs = <<>> THEN G
    ELSE LET paper == Head(docs)
             G1 == AddCitationLinks(G, paper_ids, PaperId(paper), paper.references, TRUE)
             G2 == AddCitationLinks(G1, paper_ids, PaperId(paper), paper.citations, FALSE)
         IN  AddCitationEdgesFrom(G2, paper_ids, Tail(docs))

AddCitationEdges(G, docs) == AddCitationEdgesFrom(G, NodeSet(G), docs)

\* cosine_similarity over the TF-IDF matrix: 1.0 for identical texts, the
\* library's value for different ones
Cosine(lib, t1, t2) == IF t1 = t2 THEN SimOne ELSE lib.sim

\* variant: every pair with a positive similarity gets an edge
RECURSIVE SimilarityLoopAnyPositive(_, _, _, _, _, _, _)
SimilarityLoopAnyPositive(G, ids, texts, threshold, lib, i, j) ==
    IF i > Len(ids) THEN G
    ELSE IF j > Len(ids)
         THEN SimilarityLoopAnyPositive(G, ids, texts, threshold, lib, i + 1, i + 2)
    ELSE LET similarity == Cosine(lib, texts[i], texts[j])
             H == IF similarity > 0
                  THEN AddEdge(G, ids[i], ids[j], "similarity", similarity)
                  ELSE G
         IN  SimilarityLoopAnyPositive(H, ids, texts, threshold, lib, i, j + 1)

\* the double loop "for i ... for j in range(i + 1, ...)" from position <<i, j>>
RECURSIVE SimilarityLoop(_, _, _, _, _, _, _)
SimilarityLoop(G, ids, texts, threshold, lib, i, j) ==
    IF i > Len(ids) THEN G
    ELSE IF j > Len(ids) THEN SimilarityLoop(G, ids, texts, threshold, lib, i + 1, i + 2)
    ELSE LET similarity == Cosine(lib, texts[i], texts[j])
             H == IF similarity >= threshold
                  THEN AddEdge(G, ids[i], ids[j], "similarity", similarity)
                  ELSE G
         IN  SimilarityLoop(H, ids, texts, threshold, lib, i, j + 1)

HasText(paper) == TextParts(paper) # <<>>

AddSimilarityEdges(G, docs, threshold, lib) ==
    LET withText == SelectSeq(docs, HasText)
        texts == [k \in DOMAIN withText |-> TextParts(withText[k])]
        ids == [k \in DOMAIN withText |-> PaperId(withText[k])]
    IN  IF Len(docs) < 2 THEN G
        ELSE IF Len(texts) < 2 THEN G
        ELSE IF lib.fails THEN G
        ELSE SimilarityLoop(G, ids, texts, threshold, lib, 1, 2)

\* variant: the graph of the earlier invocation is kept
ClearKeep(G) == G

\* self.graph.clear()
Clear(G) == EmptyGraph

\* lines 52-73: the graph after truncation and edge construction
BuildGraph(G, docs, citations, similarity, limit, threshold, lib) ==
    LET kept == Truncate(docs, limit)
        G0 == AddNodes(Clear(G), kept)
        G1 == IF citations THEN AddCitationEdges(G0, kept) ELSE G0
    IN  IF similarity THEN AddSimilarityEdges(G1, kept, threshold, lib) ELSE G1

\* variant: the caller's list is sorted and cut in place
CallerPapersInPlace(docs, limit) == Truncate(docs, limit)

\* lines 52-59: the caller's list after the call.  sorted() builds a new
\* list, the slice another, and "papers = ..." rebinds the local name;
\* _add_nodes and the edge steps only read the records
CallerPapers(docs, limit) == docs

\* graph.add_node(None, ...) raises ValueError: a document without an id
\* whose title is None
RaisesInAddNodes(docs) == \E i \in DOMAIN docs : PaperId(docs[i]) = Null

\* the documents _add_nodes has added when add_node raises
BeforeNullId(docs) ==
    LET first == CHOOSE i \in DOMAIN docs :
                     /\ PaperId(docs[i]) = Null
                     /\ \A k \in 1..(i - 1) : PaperId(docs[k]) # Null
    IN  SubSeq(docs, 1, first - 1)

\* node_data.get('title', '')[:50] of _export_graph_data raises TypeError
\* on a node whose title is None
RaisesInExport(G) == \E n \in NodeSet(G) : G.attr[n].title = Null

(***************************************************************************)
(* Analyses of the built graph.                                            *)
(***************************************************************************)
\* G.to_undirected(): u and v are adjacent when an edge joins them either way
Adjacent(G, u, v) == <<u, v>> \in EdgeSet(G) \/ <<v, u>> \in EdgeSet(G)

RECURSIVE Reach(_, _)
Reach(G, S) ==
    LET T == S \cup {v \in NodeSet(G) : \E u \in S : Adjacent(G, u, v)}
    IN  IF T = S THEN S ELSE Reach(G, T)

Component(G, n) == Reach(G, {n})

\* the members of a node set as a list in node order
InNodeOrder(G, S) == SelectSeq(G.nodes, LAMBDA n : n \in S)

\* nx.connected_components: one component per first-seen node, in node order
ConnectedComponents(G) ==
    LET first == SelectSeq(G.nodes, LAMBDA n :
                     \A i \in DOMAIN G.nodes :
                         (G.nodes[i] \in Component(G, n)) =>
                             \E k \in 1..i : G.nodes[k] = n)
    IN  [k \in DOMAIN first |-> Component(G, first[k])]

RECURSIVE SumSeq(_)
SumSeq(s) == IF s = <<>> THEN 0 ELSE Head(s) + SumSeq(Tail(s))

MaxOf(S) == CHOOSE x \in S : \A y \in S : y <= x

Zero == [num |-> 0, den |-> 1]

\* variant: the density of an undirected graph, 2 m / (n (n - 1))
DensityUndirected(G) ==
    LET n == NumberOfNodes(G)
        m == NumberOfEdges(G)
    IN  IF m = 0 \/ n <= 1 THEN Zero ELSE [num |-> 2 * m, den |-> n * (n - 1)]

\* nx.density of a DiGraph: m / (n (n - 1)), 0 when m = 0 or n <= 1
Density(G) ==
    LET n == NumberOfNodes(G)
        m == NumberOfEdges(G)
    IN  IF m = 0 \/ n <= 1 THEN Zero ELSE [num |-> m, den |-> n * (n - 1)]

CalculateGraphStatistics(G) ==
    LET degrees == [i \in DOMAIN G.nodes |-> Degree(G, G.nodes[i])]
        some == NumberOfNodes(G) > 0
    IN  [nodes |-> NumberOfNodes(G),
         edges |-> NumberOfEdges(G),
         density |-> Density(G),
         avg_degree |-> IF some THEN [num |-> SumSeq(degrees), den |-> Len(degrees)]
                        ELSE Zero,
         max_degree |-> IF some THEN MaxOf(Range(degrees)) ELSE 0,
         connected_components |-> IF some THEN Len(ConnectedComponents(G)) ELSE 0]

UnknownTheme == "unknown"

\* _extract_cluster_theme: the generic marker without texts, else the
\* keywords the vectorizer derives from the texts (kept as the texts)
ExtractClusterTheme(texts) == IF texts = <<>> THEN <<UnknownTheme>> ELSE texts

ClusterTexts(G, members) ==
    LET titled == SelectSeq(members, LAMBDA n : G.attr[n].title # "")
    IN  [k \in DOMAIN titled |-> G.attr[titled[k]].title]

\* variant: the reported member list is not cut
ClusterInfoUncapped(G, cluster_id, members) ==
    [cluster_id |-> cluster_id,
     size |-> Len(members),
     nodes |-> members,
     theme |-> ExtractClusterTheme(ClusterTexts(G, members))]

ClusterInfo(G, cluster_id, members) ==
    [cluster_id |-> cluster_id,
     size |-> Len(members),
     nodes |-> Prefix(members, MemberCap),
     theme |-> ExtractClusterTheme(ClusterTexts(G, members))]

SizeOf(c) == c.size

\* sorted(..., key = len, reverse = True)[:max_clusters] over the groups
ClusterList(G, groups, max_clusters) ==
    LET infos == [k \in DOMAIN groups |-> ClusterInfo(G, k - 1, InNodeOrder(G, groups[k]))]
    IN  Prefix(SortedDesc(infos, [k \in DOMAIN infos |-> SizeOf(infos[k])]), max_clusters)

SimpleClustering(G, max_clusters) ==
    LET components == [k \in DOMAIN ConnectedComponents(G) |->
                          InNodeOrder(G, ConnectedComponents(G)[k])]
        sorted == SortedDesc(components, [k \in DOMAIN components |-> Len(components[k])])
        top == Prefix(sorted, max_clusters)
    IN  [k \in DOMAIN top |-> ClusterInfo(G, k - 1, top[k])]

\* the partitions best_partition may return: every node in exactly one
\* community, a community inside one connected component
LouvainPartitions(G) ==
    {P \in SUBSET (SUBSET NodeSet(G) \ {{}}) :
        /\ UNION P = NodeSet(G)
        /\ \A A, B \in P : A # B => A \cap B = {}
        /\ \A A \in P : \A u, v \in A : v \in Component(G, u)}

\* clusters_dict: the communities in order of their first node
PartitionGroups(G, P) ==
    LET first == SelectSeq(G.nodes, LAMBDA n :
                     \A i \in DOMAIN G.nodes :
                         (\E A \in P : n \in A /\ G.nodes[i] \in A) =>
                             \E k \in 1..i : G.nodes[k] = n)
    IN  [k \in DOMAIN first |-> CHOOSE A \in P : first[k] \in A]

IdentifyClusters(G, max_clusters, mode, partition) ==
    IF NumberOfNodes(G) < 2 THEN <<>>
    ELSE IF mode = "ImportError" THEN SimpleClustering(G, max_clusters)
    ELSE IF mode = "Exception" THEN <<>>
    ELSE ClusterList(G, PartitionGroups(G, partition), max_clusters)

\* the composite score of a node: 0.3 degree + 0.3 betweenness + 0.4 pagerank
\* (the three centralities are the library's values; kept in tenths)
NodeScore(lib, n) ==
    lib.degree[n] * 3 + lib.betweenness[n] * 3 + lib.pagerank[n] * 4

\* variant: the sorted list is returned without the [:top_n] slice
IdentifyKeyNodesUnsliced(G, top_n, lib) ==
    IF NumberOfNodes(G) = 0 THEN <<>>
    ELSE LET scored == [i \in DOMAIN G.nodes |->
                           [node |-> G.nodes[i], score |-> NodeScore(lib, G.nodes[i])]]
             sorted_nodes == SortedDesc(scored, [i \in DOMAIN scored |-> scored[i].score])
         IN  [k \in DOMAIN sorted_nodes |->
                 [node_id |-> sorted_nodes[k].node,
                  title |-> G.attr[sorted_nodes[k].node].title,
                  year |-> G.attr[sorted_nodes[k].node].year,
                  importance_score |-> sorted_nodes[k].score,
                  degree |-> Degree(G, sorted_nodes[k].node)]]

IdentifyKeyNodes(G, top_n, lib) ==
    IF NumberOfNodes(G) = 0 THEN <<>>
    ELSE LET scored == [i \in DOMAIN G.nodes |->
                           [node |-> G.nodes[i], score |-> NodeScore(lib, G.nodes[i])]]
             sorted_nodes == Prefix(SortedDesc(scored, [i \in DOMAIN scored |-> scored[i].score]), top_n)
         IN  [k \in DOMAIN sorted_nodes |->
                 [node_id |-> sorted_nodes[k].node,
                  title |-> G.attr[sorted_nodes[k].node].title,
                  year |-> G.attr[sorted_nodes[k].node].year,
                  importance_score |-> sorted_nodes[k].score,
                  degree |-> Degree(G, sorted_nodes[k].node)]]

\* the directed walks of k edges from s to t
Walks(G, s, t, k) ==
    {w \in [1..(k + 1) -> NodeSet(G)] :
        /\ w[1] = s
        /\ w[k + 1] = t
        /\ \A i \in 1..k : <<w[i], w[i + 1]>> \in EdgeSet(G)}

\* nx.shortest_path(G, s, t): <<s>> when s = t, <<>> stands for NetworkXNoPath
ShortestPath(G, s, t) ==
    IF s = t THEN <<s>>
    ELSE LET lengths == {k \in 1..(NumberOfNodes(G) - 1) : Walks(G, s, t, k) # {}}
         IN  IF lengths = {} THEN <<>>
             ELSE LET k == CHOOSE x \in lengths : \A y \in lengths : x <= y
                  IN  CHOOSE w \in Walks(G, s, t, k) : TRUE

\* path_info (lines 400-412).  The field id of a node entry is the node of
\* the path: the code returns title and year only, the id is kept to state
\* where a path runs
PathInfo(G, path, start_year, end_year) ==
    [length |-> Len(path),
     start_year |-> start_year,
     end_year |-> end_year,
     nodes |-> [k \in DOMAIN path |->
                   [id |-> path[k], title |-> G.attr[path[k]].title,
                    year |-> G.attr[path[k]].year]]]

\* the nested loops over early_nodes[:3] x recent_nodes[:3] from position
\* <<i, j>>, with both "if path_count >= max_paths: break" exits
RECURSIVE PathLoop(_, _, _, _, _, _, _, _)
PathLoop(G, starts, ends, y0, y1, max_paths, i, j) ==
    IF i > Len(starts) THEN <<>>
    ELSE IF j > Len(ends)
         THEN IF 0 >= max_paths THEN <<>>
              ELSE PathLoop(G, starts, ends, y0, y1, max_paths, i + 1, 1)
    ELSE LET path == ShortestPath(G, starts[i], ends[j])
         IN  IF Len(path) > 1
             THEN IF 1 >= max_paths THEN <<PathInfo(G, path, y0, y1)>>
                  ELSE <<PathInfo(G, path, y0, y1)>>
                           \o PathLoop(G, starts, ends, y0, y1, max_paths - 1, i, j + 1)
             ELSE PathLoop(G, starts, ends, y0, y1, max_paths, i, j + 1)

\* variant: nodes without a year are grouped too (no "if year" test)
AnalyzeEvolutionPathsUndated(G, max_paths) ==
    LET years == {G.attr[n].year : n \in NodeSet(G)}
    IN  IF NumberOfNodes(G) < 2 THEN <<>>
        ELSE IF Cardinality(years) < 2 THEN <<>>
        ELSE LET y0 == CHOOSE y \in years : \A z \in years : y <= z
                 y1 == CHOOSE y \in years : \A z \in years : z <= y
                 early_nodes == SelectSeq(G.nodes, LAMBDA n : G.attr[n].year = y0)
                 recent_nodes == SelectSeq(G.nodes, LAMBDA n : G.attr[n].year = y1)
             IN  PathLoop(G, Prefix(early_nodes, SamplePerYear),
                          Prefix(recent_nodes, SamplePerYear), y0, y1, max_paths, 1, 1)

AnalyzeEvolutionPaths(G, max_paths) ==
    LET dated == {n \in NodeSet(G) : G.attr[n].year # 0}
        years == {G.attr[n].year : n \in dated}
    IN  IF NumberOfNodes(G) < 2 THEN <<>>
        ELSE IF Cardinality(years) < 2 THEN <<>>
        ELSE LET y0 == CHOOSE y \in years : \A z \in years : y <= z
                 y1 == CHOOSE y \in years : \A z \in years : z <= y
                 early_nodes == SelectSeq(G.nodes, LAMBDA n : G.attr[n].year = y0)
                 recent_nodes == SelectSeq(G.nodes, LAMBDA n : G.attr[n].year = y1)
             IN  PathLoop(G, Prefix(early_nodes, SamplePerYear),
                          Prefix(recent_nodes, SamplePerYear), y0, y1, max_paths, 1, 1)

ExportGraphData(G) ==
    [nodes |-> [i \in DOMAIN G.nodes |->
                   [id |-> G.nodes[i],
                    label |-> G.attr[G.nodes[i]].title,
                    year |-> G.attr[G.nodes[i]].year,
                    quality_score |-> G.attr[G.nodes[i]].quality_score]],
     edges |-> [i \in DOMAIN EdgeList(G) |->
                   [source |-> EdgeList(G)[i][1],
                    target |-> EdgeList(G)[i][2],
                    type |-> G.edges[EdgeList(G)[i]].type,
                    weight |-> G.edges[EdgeList(G)[i]].weight]]]

\* lines 75-95: the result object of one invocation over the built graph
BuildResult(G, mode, partition, lib) ==
    [nodes |-> NumberOfNodes(G),
     edges |-> NumberOfEdges(G),
     statistics |-> CalculateGraphStatistics(G),
     clusters |-> IdentifyClusters(G, DefaultMaxClusters, mode, partition),
     key_nodes |-> IdentifyKeyNodes(G, DefaultTopN, lib),
     evolution_paths |-> AnalyzeEvolutionPaths(G, DefaultMaxPaths),
     graph_data |-> ExportGraphData(G)]

(***************************************************************************)
(* Arguments and library outcomes the invocations are run on.  The full    *)
(* product of all fields is out of reach, so the inputs are the union of   *)
(* families, each varying the fields one part of the engine reads and      *)
(* leaving the others absent.                                              *)
(***************************************************************************)
Doc(id, title, abstract, year, quality, refs, cits) ==
    [paperId |-> id, title |-> title, abstract |-> abstract, year |-> year,
     quality_score |-> quality, references |-> refs, citations |-> cits]

\* the lists of at most MaxDocs papers over D
Lists(D) == UNION {[1..n -> D] : n \in 0..MaxDocs}

\* references / citations of one paper: at most MaxLinks entries in all
LinkPairs(I) ==
    {lp \in (SUBSET I) \X (SUBSET I) : Cardinality(lp[1]) + Cardinality(lp[2]) <= MaxLinks}

RefSets(I) == {r \in SUBSET I : Cardinality(r) <= MaxLinks}

Uniform == [degree |-> [n \in Ids \cup Titles |-> 0],
            betweenness |-> [n \in Ids \cup Titles |-> 0],
            pagerank |-> [n \in Ids \cup Titles |-> 1]]

NoFailure == [fails |-> FALSE, sim |-> 0]

SklearnOutcomes == {[fails |-> FALSE, sim |-> v] : v \in SimValues}
                       \cup {[fails |-> TRUE, sim |-> 0]}

CentralityOutcomes ==
    {[degree |-> [n \in Ids \cup Titles |-> d],
      betweenness |-> [n \in Ids \cup Titles |-> 0],
      pagerank |-> [n \in Ids \cup Titles |-> IF n \in Ids THEN pr[n] ELSE 1]] :
        d \in {0, 1}, pr \in [Ids -> {1, 2}]}

MaxNodesValues == {None} \cup {<<n>> : n \in 0..MaxDocs}

\* truncation: ids, quality scores, references; max_nodes varies
DocsTruncate ==
    {Doc(id, "", "", 0, q, r, {}) : id \in Ids, q \in Qualities, r \in RefSets({"b"})}

\* citation edges: ids, references and citations; the edge kinds vary
DocsCitation ==
    {Doc(id, "", "", 0, 0, lp[1], lp[2]) : id \in TwoIds, lp \in LinkPairs({"a"})}

\* similarity edges: ids, abstracts, references; threshold and cosine vary
DocsSimilarity ==
    {Doc(id, "", ab, 0, 0, r, {}) : id \in TwoIds, ab \in Abstracts, r \in RefSets({"b"})}

\* identity fallback: absent ids, titles, abstracts
DocsTitle == {Doc(id, t, ab, 0, 0, {}, {}) : id \in {"", "a"}, t \in Titles, ab \in {"", "s1"}}

\* evolution paths: ids, years, references
DocsYears ==
    {Doc(id, "", "", y, 0, r, {}) : id \in Ids, y \in Years, r \in RefSets({"b"})}

\* clusters: ids and references; the outcome of the Louvain import varies
DocsLinked == {Doc(id, "", "", 0, 0, r, {}) : id \in Ids, r \in RefSets(TwoIds)}

\* centrality: ids and references; the library's centralities vary
DocsRanked == {Doc(id, "", "", 0, 0, r, {}) : id \in Ids, r \in RefSets({"a"})}

\* null fields: absent ids, titles that are absent, None or present
DocsNull == {Doc(id, t, "", 0, 0, {}, {}) : id \in {"", "a"}, t \in {"", Null, "t"}}

\* the variables of the other components, before any of them is used
NoThreads == threads = <<>> /\ cancelled = <<>>
NoStore == tasks = <<>> /\ requested = <<>> /\ fetched = None
NoToken == now = 0 /\ token = None /\ issued = None /\ verified = None
NoDirect == [method |-> "", arg |-> 0, partition |-> {}, value |-> <<>>]
NoCalls == direct = NoDirect /\ done = <<>> /\ cursor = 0
NoCoordinator == research_tasks = <<>> /\ cancel_returned = {}
NoLimiter == requests = <<>> /\ lock = None /\ callers = <<>> /\ granted = <<>>

NoCall == [top_n |-> 0, list |-> <<>>]

Pending ==
    /\ graph = EmptyGraph
    /\ result = <<>>
    /\ key_nodes = NoCall
    /\ pc = "called"
    /\ invocations = 0
    /\ NoThreads /\ NoStore /\ NoToken /\ NoCalls /\ NoCoordinator /\ NoLimiter

Defaults ==
    /\ include_citations = TRUE
    /\ include_similarity = TRUE
    /\ max_nodes = None
    /\ similarity_threshold = DefaultThreshold
    /\ sklearn = NoFailure
    /\ louvain = "ImportError"
    /\ nx_centrality = Uniform

InitTruncate ==
    /\ papers \in Lists(DocsTruncate)
    /\ max_nodes \in MaxNodesValues
    /\ include_citations = TRUE
    /\ include_similarity = TRUE
    /\ similarity_threshold = DefaultThreshold
    /\ sklearn = NoFailure
    /\ louvain = "ImportError"
    /\ nx_centrality = Uniform

InitCitation ==
    /\ papers \in Lists(DocsCitation)
    /\ include_citations \in BOOLEAN
    /\ include_similarity \in BOOLEAN
    /\ max_nodes = None
    /\ similarity_threshold = DefaultThreshold
    /\ sklearn = NoFailure
    /\ louvain = "ImportError"
    /\ nx_centrality = Uniform

InitSimilarity ==
    /\ papers \in Lists(DocsSimilarity)
    /\ similarity_threshold \in Thresholds
    /\ sklearn \in SklearnOutcomes
    /\ include_citations = TRUE
    /\ include_similarity = TRUE
    /\ max_nodes = None
    /\ louvain = "ImportError"
    /\ nx_centrality = Uniform

InitTitle ==
    /\ papers \in Lists(DocsTitle)
    /\ sklearn \in SklearnOutcomes
    /\ include_citations = TRUE
    /\ include_similarity = TRUE
    /\ max_nodes = None
    /\ similarity_threshold = DefaultThreshold
    /\ louvain = "ImportError"
    /\ nx_centrality = Uniform

InitYears ==
    /\ papers \in Lists(DocsYears)
    /\ Defaults

InitClusters ==
    /\ papers \in Lists(DocsLinked)
    /\ louvain \in {"ok", "ImportError", "Exception"}
    /\ include_citations = TRUE
    /\ include_similarity = TRUE
    /\ max_nodes = None
    /\ similarity_threshold = DefaultThreshold
    /\ sklearn = NoFailure
    /\ nx_centrality = Uniform

InitCentrality ==
    /\ papers \in Lists(DocsRanked)
    /\ nx_centrality \in CentralityOutcomes
    /\ include_citations = TRUE
    /\ include_similarity = TRUE
    /\ max_nodes = None
    /\ similarity_threshold = DefaultThreshold
    /\ sklearn = NoFailure
    /\ louvain = "ImportError"

InitNull ==
    /\ papers \in Lists(DocsNull)
    /\ Defaults

Init ==
    /\ Pending
    /\ \/ InitTruncate
       \/ InitCitation
       \/ InitSimilarity
       \/ InitTitle
       \/ InitYears
       \/ InitClusters
       \/ InitCentrality
       \/ InitNull

(***************************************************************************)
(* Actions.                                                                *)
(***************************************************************************)
\* one invocation of build_knowledge_graph, lines 30-98: it returns the
\* result object, or ends with the exception of add_node (the graph holds
\* the nodes added so far) or of _export_graph_data (the graph is built)
BuildKnowledgeGraph ==
    /\ pc = "called"
    /\ LET kept == Truncate(papers, max_nodes)
           G == BuildGraph(graph, papers, include_citations, include_similarity,
                           max_nodes, similarity_threshold, sklearn)
       IN  IF RaisesInAddNodes(kept)
           THEN /\ graph' = AddNodes(Clear(graph), BeforeNullId(kept))
                /\ result' = result
                /\ pc' = "raised"
           ELSE IF RaisesInExport(G)
           THEN /\ graph' = G
                /\ result' = result
                /\ pc' = "raised"
           ELSE /\ graph' = G
                /\ \E partition \in (IF louvain = "ok" /\ NumberOfNodes(G) >= 2
                                     THEN LouvainPartitions(G) ELSE {{}}) :
                       result' = BuildResult(G, louvain, partition, nx_centrality)
                /\ pc' = "returned"
    /\ papers' = CallerPapers(papers, max_nodes)
    /\ invocations' = invocations + 1
    /\ UNCHANGED <<include_citations, include_similarity, max_nodes,
                   similarity_threshold, sklearn, louvain, nx_centrality, key_nodes>>
    /\ UNCHANGED <<threadVars, storeVars, tokenVars, callVars, coordinatorVars, limiterVars>>

\* the caller invokes the same agent again, on the list without its last
\* document; the list an earlier direct call returned is dropped
Invoke ==
    /\ pc \in {"returned", "raised"}
    /\ papers # <<>>
    /\ papers' = SubSeq(papers, 1, Len(papers) - 1)
    /\ key_nodes' = NoCall
    /\ pc' = "called"
    /\ UNCHANGED <<include_citations, include_similarity, max_nodes,
                   similarity_threshold, sklearn, louvain, nx_centrality,
                   graph, result, invocations>>
    /\ UNCHANGED <<threadVars, storeVars, tokenVars, callVars, coordinatorVars, limiterVars>>

\* a direct call of _identify_key_nodes(top_n) on the built graph
IdentifyKeyNodesCall ==
    /\ pc = "returned"
    /\ \E top_n \in 0..MaxTopN :
           key_nodes' = [top_n |-> top_n,
                         list |-> IdentifyKeyNodes(graph, top_n, nx_centrality)]
    /\ UNCHANGED <<papers, include_citations, include_similarity, max_nodes,
                   similarity_threshold, sklearn, louvain, nx_centrality,
                   graph, result, pc, invocations>>
    /\ UNCHANGED <<threadVars, storeVars, tokenVars, callVars, coordinatorVars, limiterVars>>

Next == BuildKnowledgeGraph \/ Invoke

Spec == Init /\ [][Next]_vars

InitKeyNodes == Pending /\ InitCentrality

NextKeyNodes == BuildKnowledgeGraph \/ Invoke \/ IdentifyKeyNodesCall

SpecKeyNodes == InitKeyNodes /\ [][NextKeyNodes]_vars

(***************************************************************************)
(* Caller misuse: a negative max_nodes, a negative similarity_threshold    *)
(* (the attribute is set on the instance), a negative top_n.               *)
(***************************************************************************)
NegativeLimits == {<<-1>>}
NegativeThresholds == {-1}
NegativeTopN == {-1}

DocsMisuse ==
    {Doc(id, "", ab, 0, q, {}, {}) : id \in TwoIds, ab \in {"s1", "s2"}, q \in Qualities}

InitMisuse ==
    /\ Pending
    /\ papers \in Lists(DocsMisuse) \ {<<>>}
    /\ \/ max_nodes \in NegativeLimits /\ similarity_threshold = DefaultThreshold
       \/ max_nodes = None /\ similarity_threshold \in NegativeThresholds
    /\ include_citations = TRUE
    /\ include_similarity = TRUE
    /\ sklearn = NoFailure
    /\ louvain = "ImportError"
    /\ nx_centrality = Uniform

\* a direct call of _identify_key_nodes with a negative top_n
IdentifyKeyNodesNegative ==
    /\ pc = "returned"
    /\ \E top_n \in NegativeTopN :
           key_nodes' = [top_n |-> top_n,
                         list |-> IdentifyKeyNodes(graph, top_n, nx_centrality)]
    /\ UNCHANGED <<papers, include_citations, include_similarity, max_nodes,
                   similarity_threshold, sklearn, louvain, nx_centrality,
                   graph, result, pc, invocations>>
    /\ UNCHANGED <<threadVars, storeVars, tokenVars, callVars, coordinatorVars, limiterVars>>

NextMisuse == BuildKnowledgeGraph \/ Invoke \/ IdentifyKeyNodesNegative

SpecMisuse == InitMisuse /\ [][NextMisuse]_vars

(***************************************************************************)
(* Overlapping invocations on the one instance (relation_agent, line 483). *)
(* The body of build_knowledge_graph has no suspension point, so           *)
(* invocations overlap when they run in different threads (each with its   *)
(* own event loop, as src/src/web/app.py:297 makes one per session); all   *)
(* of them read and write the same self.graph.  An invocation is a         *)
(* sequence of steps, one per stage of lines 52-98; a thread record is     *)
(* [papers, kept, pc, result] with kept the local list after truncation.   *)
(* The arguments other than papers are the defaults.                       *)
(***************************************************************************)
ThreadIds == {1, 2}

Called(l) == [papers |-> l, kept |-> <<>>, pc |-> "called", result |-> <<>>]

\* what a step of an invocation leaves alone
ThreadFrame ==
    /\ UNCHANGED <<papers, include_citations, include_similarity, max_nodes,
                   similarity_threshold, sklearn, louvain, nx_centrality,
                   result, key_nodes, pc, invocations, cancelled>>
    /\ UNCHANGED <<storeVars, tokenVars, callVars, coordinatorVars, limiterVars>>

\* lines 52-62: truncation into the local name, then self.graph.clear()
Begin ==
    /\ \E i \in DOMAIN threads :
           /\ threads[i].pc = "called"
           /\ threads' = [threads EXCEPT ![i].kept = Truncate(threads[i].papers, max_nodes),
                                         ![i].pc = "nodes"]
    /\ graph' = Clear(graph)
    /\ ThreadFrame

\* line 65: self._add_nodes(papers)
AddNodesStep ==
    /\ \E i \in DOMAIN threads :
           /\ threads[i].pc = "nodes"
           /\ threads' = [threads EXCEPT ![i].pc = "citations"]
           /\ graph' = AddNodes(graph, threads[i].kept)
    /\ ThreadFrame

\* lines 68-69
CitationStep ==
    /\ \E i \in DOMAIN threads :
           /\ threads[i].pc = "citations"
           /\ threads' = [threads EXCEPT ![i].pc = "similarity"]
           /\ graph' = IF include_citations
                        THEN AddCitationEdges(graph, threads[i].kept)
                        ELSE graph
    /\ ThreadFrame

\* lines 72-73: pc = "similarity" is an invocation inside
\* _add_similarity_edges, its edges not yet written
SimilarityStep ==
    /\ \E i \in DOMAIN threads :
           /\ threads[i].pc = "similarity"
           /\ threads' = [threads EXCEPT ![i].pc = "analyses"]
           /\ graph' = IF include_similarity
                        THEN AddSimilarityEdges(graph, threads[i].kept,
                                                similarity_threshold, sklearn)
                        ELSE graph
    /\ ThreadFrame

\* lines 76-98: the analyses read self.graph and the result is returned
Finish ==
    /\ \E i \in DOMAIN threads :
           /\ threads[i].pc = "analyses"
           /\ threads' = [threads EXCEPT
                              ![i].pc = "returned",
                              ![i].result = BuildResult(graph, louvain, {}, nx_centrality)]
    /\ graph' = graph
    /\ ThreadFrame

\* one step of one of the invocations
Step == Begin \/ AddNodesStep \/ CitationStep \/ SimilarityStep \/ Finish

\* CoordinatorAgent.cancel_task (coordinator_agent.py 596-611) on the task
\* an invocation runs for: the task's status becomes CANCELLED; nothing of
\* the invocation is touched, and build_knowledge_graph reads no status
CancelTask ==
    /\ \E i \in DOMAIN threads :
           /\ threads[i].pc \notin {"called", "returned"}
           /\ cancelled[i] = ""
           /\ cancelled' = [cancelled EXCEPT ![i] = threads[i].pc]
    /\ UNCHANGED <<agentVars, threads, storeVars, tokenVars,
                   callVars, coordinatorVars, limiterVars>>

\* the documents of overlapping invocations
DocsOverlap == {Doc("a", "", "s1", 0, 0, {"b"}, {}), Doc("b", "", "s1", 0, 0, {}, {})}

\* the documents of a cancelled invocation
DocsCancel == {Doc(id, "", ab, 0, 0, {}, {}) : id \in TwoIds, ab \in {"s1", "s2"}}

\* the instance before the threads start
Shared ==
    /\ papers = <<>>
    /\ graph = EmptyGraph
    /\ result = <<>>
    /\ key_nodes = NoCall
    /\ pc = "threads"
    /\ invocations = 0
    /\ Defaults
    /\ NoStore /\ NoToken /\ NoCalls /\ NoCoordinator /\ NoLimiter

InitThreads ==
    /\ Shared
    /\ threads \in [ThreadIds -> {Called(l) : l \in Lists(DocsOverlap)}]
    /\ cancelled = [i \in ThreadIds |-> ""]

NextThreads == Begin \/ AddNodesStep \/ CitationStep \/ SimilarityStep \/ Finish

SpecThreads == InitThreads /\ [][NextThreads]_vars

InitCancel ==
    /\ Shared
    /\ threads \in [{1} -> {Called(l) : l \in Lists(DocsCancel)}]
    /\ cancelled = [i \in {1} |-> ""]

NextCancel == Step \/ CancelTask

SpecCancel == InitCancel /\ [][NextCancel]_vars

(***************************************************************************)
(* The task table of SQLiteManager (src/src/database/sqlite_manager.py).   *)
(* A row is [task_id, query, status, progress]; progress is None (NULL) or *)
(* <<p>>.  The user id, result, error message and timestamps of a row are  *)
(* left out.                                                               *)
(***************************************************************************)
TaskIds == {"t1", "t2"}
Queries == {"q1", "q2"}
Statuses == {"pending", "running", "completed", "failed"}

DefaultProgress == 0
CompletedProgress == 100
Progresses == {None, <<DefaultProgress>>, <<50>>, <<CompletedProgress>>}

\* the row INSERT makes: status DEFAULT 'pending', progress DEFAULT 0
NewRow(task_id, query) ==
    [task_id |-> task_id, query |-> query, status |-> "pending",
     progress |-> <<DefaultProgress>>]

\* the progress update_task_status binds: "progress or 100" for the status
\* 'completed' (None and 0 are falsy), progress as given for the others
StoredProgress(status, progress) ==
    IF status = "completed"
    THEN IF progress = None \/ progress[1] = 0 THEN <<CompletedProgress>> ELSE progress
    ELSE progress

\* get_task: <<row>>, or None when no row has the task_id
GetTask(T, task_id) == IF task_id \in DOMAIN T THEN <<T[task_id]>> ELSE None

\* create_task(task_id, query) with a task_id not in the table (a second
\* row with the task_id violates UNIQUE: the INSERT raises, the table stays)
CreateTask ==
    /\ \E task_id \in TaskIds \ DOMAIN tasks, query \in Queries :
           /\ tasks' = [t \in DOMAIN tasks \cup {task_id} |->
                            IF t = task_id THEN NewRow(task_id, query) ELSE tasks[t]]
           /\ requested' = [t \in DOMAIN tasks \cup {task_id} |->
                                IF t = task_id THEN [query |-> query, update |-> None]
                                ELSE requested[t]]
    /\ fetched' = None
    /\ UNCHANGED <<agentVars, threadVars, tokenVars, callVars, coordinatorVars, limiterVars>>

\* update_task_status(task_id, status, progress): the UPDATE changes the
\* row with the task_id, and nothing when there is none
UpdateTaskStatus ==
    /\ \E task_id \in TaskIds, status \in Statuses, progress \in Progresses :
           IF task_id \in DOMAIN tasks
           THEN /\ tasks' = [tasks EXCEPT ![task_id].status = status,
                                          ![task_id].progress = StoredProgress(status, progress)]
                /\ requested' = [requested EXCEPT ![task_id].update =
                                     <<[status |-> status, progress |-> progress]>>]
           ELSE UNCHANGED <<tasks, requested>>
    /\ fetched' = None
    /\ UNCHANGED <<agentVars, threadVars, tokenVars, callVars, coordinatorVars, limiterVars>>

\* a get_task(task_id) call; fetched keeps its answer until the next write
GetTaskCall ==
    /\ \E task_id \in TaskIds :
           fetched' = <<[task_id |-> task_id, task |-> GetTask(tasks, task_id)]>>
    /\ UNCHANGED <<tasks, requested>>
    /\ UNCHANGED <<agentVars, threadVars, tokenVars, callVars, coordinatorVars, limiterVars>>

\* the instance of the agent, not used by the store and the tokens
AgentUnused ==
    /\ papers = <<>>
    /\ graph = EmptyGraph
    /\ result = <<>>
    /\ key_nodes = NoCall
    /\ pc = "unused"
    /\ invocations = 0
    /\ Defaults
    /\ NoThreads

InitTasks == AgentUnused /\ NoStore /\ NoToken /\ NoCalls /\ NoCoordinator /\ NoLimiter

NextTasks == CreateTask \/ UpdateTaskStatus \/ GetTaskCall

SpecTasks == InitTasks /\ [][NextTasks]_vars

(***************************************************************************)
(* The tokens of EncryptionManager (src/src/utils/encryption.py).  The     *)
(* clock is int(time.time()), in whole seconds.  encrypt is AES-CBC under  *)
(* the manager's key with a random IV, decrypt its inverse; json.dumps and *)
(* json.loads carry the token record.                                      *)
(***************************************************************************)
MaxTime == 3
MaxExpiry == 1

DataValues == {"user_123", "user_456"}
Expiries == {None} \cup {<<e>> : e \in 0..MaxExpiry}
IVs == {0, 1}

JsonDumps(value) == <<"json", value>>
JsonLoads(text) == text[2]

Encrypt(plaintext, iv) == [iv |-> iv, ciphertext |-> <<"aes-cbc", plaintext>>]
Decrypt(encrypted) == encrypted.ciphertext[2]

\* generate_token(data, expiry) at the time t
GenerateTokenAt(data, expiry, t, iv) ==
    Encrypt(JsonDumps([data |-> data, timestamp |-> t, expiry |-> expiry]), iv)

\* verify_token(tok) at the time t: <<data>>, or None for an expired token.
\* "if token_data.get('expiry')" skips the test for None and for 0
VerifyTokenAt(tok, t) ==
    LET token_data == JsonLoads(Decrypt(tok))
    IN  IF token_data.expiry # None /\ token_data.expiry[1] # 0
        THEN IF t - token_data.timestamp > token_data.expiry[1]
             THEN None
             ELSE <<token_data.data>>
        ELSE <<token_data.data>>

GenerateToken ==
    /\ \E data \in DataValues, expiry \in Expiries, iv \in IVs :
           /\ token' = <<GenerateTokenAt(data, expiry, now, iv)>>
           /\ issued' = <<[data |-> data, expiry |-> expiry, timestamp |-> now]>>
    /\ verified' = None
    /\ now' = now
    /\ UNCHANGED <<agentVars, threadVars, storeVars, callVars, coordinatorVars, limiterVars>>

\* a second passes
Tick ==
    /\ now < MaxTime
    /\ now' = now + 1
    /\ verified' = None
    /\ UNCHANGED <<token, issued>>
    /\ UNCHANGED <<agentVars, threadVars, storeVars, callVars, coordinatorVars, limiterVars>>

\* verify_token on the last generated token; verified is <<its answer>>
VerifyToken ==
    /\ token # None
    /\ verified' = <<VerifyTokenAt(token[1], now)>>
    /\ UNCHANGED <<now, token, issued>>
    /\ UNCHANGED <<agentVars, threadVars, storeVars, callVars, coordinatorVars, limiterVars>>

InitToken == AgentUnused /\ NoStore /\ NoToken /\ NoCalls /\ NoCoordinator /\ NoLimiter

NextToken == GenerateToken \/ Tick \/ VerifyToken

SpecToken == InitToken /\ [][NextToken]_vars

(***************************************************************************)
(* Properties.                                                             *)
(***************************************************************************)
Returned == pc = "returned"

\* the documents the last invocation retained, and their identities
Kept == Truncate(papers, max_nodes)
KeptIds == {PaperId(Kept[i]) : i \in DOMAIN Kept}

\* the reorderings of a list
Reorderings(s) ==
    {[i \in DOMAIN s |-> s[p[i]]] :
        p \in {q \in [DOMAIN s -> DOMAIN s] : \A i, j \in DOMAIN s : q[i] = q[j] => i = j}}

\* C1: after an invocation the node count is min(len(documents), max_nodes)
\* (len(documents) without a max_nodes).
C1_NodeCountIsMin ==
    Returned =>
        result.nodes = IF max_nodes = None THEN Len(papers)
                       ELSE Min(Len(papers), max_nodes[1])

\* C2: when the list is longer than max_nodes (a positive max_nodes; 0 is
\* the case of C1) exactly max_nodes documents are retained, and every
\* reordering of the list retains the same node set.
C2_TruncationIgnoresOrder ==
    (Returned /\ max_nodes # None /\ max_nodes[1] > 0 /\ Len(papers) > max_nodes[1]) =>
        /\ Len(Kept) = max_nodes[1]
        /\ \A q \in Reorderings(papers) :
               {PaperId(d) : d \in Range(Truncate(q, max_nodes))} = NodeSet(graph)

\* C3: no edge of the built graph has its source equal to its target.
C3_NoSelfLoops ==
    Returned => \A e \in EdgeSet(graph) : e[1] # e[2]

\* C4: every similarity edge joins two retained documents with text whose
\* cosine similarity is at least the threshold, and carries it as weight.
C4_SimilarityEdgesAboveThreshold ==
    Returned =>
        \A e \in EdgeSet(graph) :
            graph.edges[e].type = "similarity" =>
                \E i, j \in DOMAIN Kept :
                    /\ i < j
                    /\ HasText(Kept[i]) /\ HasText(Kept[j])
                    /\ e = <<PaperId(Kept[i]), PaperId(Kept[j])>>
                    /\ Cosine(sklearn, TextParts(Kept[i]), TextParts(Kept[j]))
                           >= similarity_threshold
                    /\ graph.edges[e].weight
                           = Cosine(sklearn, TextParts(Kept[i]), TextParts(Kept[j]))

C4_Witness ==
    /\ Returned
    /\ \E e \in EdgeSet(graph) :
           /\ graph.edges[e].type = "similarity"
           /\ graph.edges[e].weight < SimOne
    /\ \E i, j \in DOMAIN Kept :
           /\ HasText(Kept[i]) /\ HasText(Kept[j])
           /\ <<PaperId(Kept[i]), PaperId(Kept[j])>> \notin EdgeSet(graph)

\* the documents of the list have pairwise distinct identities
DistinctIds == \A i, j \in DOMAIN papers : PaperId(papers[i]) = PaperId(papers[j]) => i = j

\* C5: every edge (source, target, kind) of an invocation is an edge of the
\* invocation on the same arguments with any lower similarity threshold
\* (stated for lists of documents with distinct identities).
C5_LowerThresholdKeepsEdges ==
    (Returned /\ DistinctIds) =>
        \A t \in Thresholds :
            t < similarity_threshold =>
                LET lower == BuildGraph(EmptyGraph, papers, include_citations,
                                        include_similarity, max_nodes, t, sklearn)
                IN  \A e \in EdgeSet(graph) :
                        /\ e \in EdgeSet(lower)
                        /\ lower.edges[e].type = graph.edges[e].type

\* C6: the returned clusters partition the node set.
C6_ClustersPartitionNodes ==
    Returned =>
        /\ UNION {Range(result.clusters[k].nodes) : k \in DOMAIN result.clusters}
               = NodeSet(graph)
        /\ \A k, l \in DOMAIN result.clusters :
               k # l => Range(result.clusters[k].nodes)
                            \cap Range(result.clusters[l].nodes) = {}

\* C7: _identify_key_nodes(top_n) returns min(top_n, node count) records in
\* non-increasing order of importance score.
C7_KeyNodesTopN ==
    Returned =>
        /\ Len(key_nodes.list) = Min(key_nodes.top_n, NumberOfNodes(graph))
        /\ \A k \in 1..(Len(key_nodes.list) - 1) :
               key_nodes.list[k].importance_score
                   >= key_nodes.list[k + 1].importance_score

C7_Witness ==
    /\ Returned
    /\ key_nodes.top_n = 1
    /\ NumberOfNodes(graph) = 2
    /\ Len(key_nodes.list) = 1
    /\ key_nodes.list[1].node_id = graph.nodes[2]

\* the known years among the nodes
KnownYears == {graph.attr[n].year : n \in NodeSet(graph)} \ {0}
MinYear == CHOOSE y \in KnownYears : \A z \in KnownYears : y <= z
MaxYear == CHOOSE y \in KnownYears : \A z \in KnownYears : z <= y

\* C8: without two distinct known years there is no evolution path; with
\* them every path starts in the minimum year and ends in the maximum year.
C8_EvolutionPathYears ==
    Returned =>
        IF Cardinality(KnownYears) < 2
        THEN result.evolution_paths = <<>>
        ELSE \A k \in DOMAIN result.evolution_paths :
                 LET ns == result.evolution_paths[k].nodes
                 IN  /\ ns[1].year = MinYear
                     /\ ns[Len(ns)].year = MaxYear

C8_Witness ==
    /\ Returned
    /\ Cardinality(KnownYears) >= 2
    /\ result.evolution_paths # <<>>

\* C9: an invocation on the empty list returns 0 nodes, 0 edges and empty
\* cluster, key-node and evolution-path lists.
C9_EmptyInput ==
    (Returned /\ papers = <<>>) =>
        /\ result.nodes = 0
        /\ result.edges = 0
        /\ result.clusters = <<>>
        /\ result.key_nodes = <<>>
        /\ result.evolution_paths = <<>>

C9_Witness ==
    /\ Returned
    /\ papers = <<>>
    /\ result.graph_data.nodes = <<>>

\* C10: the node set is the set of identities of the retained documents and
\* both endpoints of every edge are in it.
C10_NodesAreRetainedDocuments ==
    Returned =>
        /\ NodeSet(graph) = KeptIds
        /\ \A e \in EdgeSet(graph) : e[1] \in KeptIds /\ e[2] \in KeptIds

C10_Witness ==
    /\ Returned
    /\ Len(Kept) < Len(papers)
    /\ \E i \in DOMAIN Kept :
           \E r \in Kept[i].references :
               /\ r \notin KeptIds
               /\ \E j \in DOMAIN papers : PaperId(papers[j]) = r

\* C11: with citation edges enabled, every reference R of a retained
\* document P that is itself retained gives the edge P -> R of kind citation
\* and weight 1.0, and every retained entry C of P's citations the edge
\* C -> P of kind citation and weight 1.0, with or without similarity edges.
C11_CitationEdgesPresent ==
    (Returned /\ include_citations) =>
        \A i \in DOMAIN Kept :
            LET P == PaperId(Kept[i])
                citation == [type |-> "citation", weight |-> CitationWeight]
            IN  /\ \A R \in Kept[i].references \cap KeptIds :
                       <<P, R>> \in EdgeSet(graph) /\ graph.edges[<<P, R>>] = citation
                /\ \A C \in Kept[i].citations \cap KeptIds :
                       <<C, P>> \in EdgeSet(graph) /\ graph.edges[<<C, P>>] = citation

\* C14: build_knowledge_graph never ends with an exception, whatever fields
\* of the documents are absent or null, and with fewer than 2 documents
\* with usable text the graph has no similarity edge.
C14_NeverRaises ==
    /\ pc # "raised"
    /\ (Returned /\ Cardinality({i \in DOMAIN Kept : HasText(Kept[i])}) < 2) =>
           \A e \in EdgeSet(graph) : graph.edges[e].type # "similarity"

\* C15: an invocation leaves the caller's document list as it was: same
\* length, same order, same records.
C15_CallerListUnchanged ==
    [][(pc = "called" /\ pc' # "called") => papers' = papers]_vars

C15_Witness ==
    /\ Returned
    /\ Len(Kept) < Len(papers)
    /\ \E i \in DOMAIN Kept : Kept[i] # papers[i]

\* the graph and the results a freshly constructed instance gives on the
\* arguments of the last invocation
FreshGraph ==
    BuildGraph(EmptyGraph, papers, include_citations, include_similarity,
               max_nodes, similarity_threshold, sklearn)
FreshResults ==
    {BuildResult(FreshGraph, louvain, partition, nx_centrality) :
        partition \in (IF louvain = "ok" /\ NumberOfNodes(FreshGraph) >= 2
                       THEN LouvainPartitions(FreshGraph) ELSE {{}})}

\* C17: after any earlier invocations on the instance, an invocation builds
\* the graph and returns a result a fresh instance gives on its arguments.
C17_ResultDependsOnArguments ==
    Returned => (graph = FreshGraph /\ result \in FreshResults)

C17_Witness ==
    /\ Returned
    /\ invocations = 2
    /\ NumberOfNodes(graph) = 1
    /\ NumberOfEdges(graph) = 0

\* C18: on a graph with 0 or 1 nodes _identify_key_nodes returns the empty
\* list.
C18_SmallGraphNoKeyNodes ==
    (Returned /\ NumberOfNodes(graph) <= 1) => result.key_nodes = <<>>

\* the call misuses an argument
Misuse == (max_nodes # None /\ max_nodes[1] < 0) \/ similarity_threshold < 0

\* C13: a call with a negative max_nodes or similarity threshold adds no
\* node or edge and produces no result object, and no list is returned for
\* a negative top-N.
C13_MisuseRejected ==
    /\ Misuse => (result = <<>> /\ graph = EmptyGraph)
    /\ key_nodes.top_n >= 0

\* what an invocation returns when it runs alone on the list l
Alone(l) ==
    BuildResult(BuildGraph(EmptyGraph, l, include_citations, include_similarity,
                           max_nodes, similarity_threshold, sklearn),
                louvain, {}, nx_centrality)

\* C12: an invocation cancelled while it computes similarity edges (on two
\* documents with text at least) returns a result with a partial indicator
\* and at most the edges of an uncancelled run on the same input.
C12_CancelledResultIsPartial ==
    \A i \in DOMAIN threads :
        (/\ threads[i].pc = "returned"
         /\ cancelled[i] = "similarity"
         /\ Len(SelectSeq(threads[i].kept, HasText)) >= 2) =>
            /\ "partial" \in DOMAIN threads[i].result
            /\ threads[i].result["partial"] = TRUE
            /\ threads[i].result.edges <= Alone(threads[i].papers).edges

\* C16: each of two overlapping invocations returns the result it returns
\* when it runs alone on its own input.
C16_OverlappingInvocationsIsolated ==
    \A i \in DOMAIN threads :
        threads[i].pc = "returned" => threads[i].result = Alone(threads[i].papers)

\* C19: get_task returns the task with the given task_id and its query;
\* its status is 'pending' after create_task, and after a later
\* update_task_status(task_id, status, progress = p) its status and
\* progress are that status and p.
C19_TaskStoreRoundTrip ==
    \A k \in DOMAIN fetched :
        LET task_id == fetched[k].task_id
        IN  task_id \in DOMAIN requested =>
                /\ fetched[k].task # None
                /\ fetched[k].task[1].task_id = task_id
                /\ fetched[k].task[1].query = requested[task_id].query
                /\ IF requested[task_id].update = None
                   THEN fetched[k].task[1].status = "pending"
                   ELSE /\ fetched[k].task[1].status = requested[task_id].update[1].status
                        /\ requested[task_id].update[1].progress # None =>
                               fetched[k].task[1].progress
                                   = requested[task_id].update[1].progress

\* C20: verify_token on a generated token returns its data while the
\* seconds elapsed since generation do not exceed expiry and None once
\* they do, for every expiry >= 0; a token with expiry None never expires.
C20_TokenExpiry ==
    \A k \in DOMAIN verified :
        LET elapsed == now - issued[1].timestamp
            expiry == issued[1].expiry
        IN  verified[k] = IF expiry = None \/ elapsed <= expiry[1]
                          THEN <<issued[1].data>>
                          ELSE None

\* the ids of the model in their (lexicographic) order
IdsInOrder == <<"", "a", "b", "c", "t">>
IdRank(x) == CHOOSE i \in DOMAIN IdsInOrder : IdsInOrder[i] = x

\* C21: a pair of distinct documents has at most one similarity edge, and
\* the source of a similarity edge is the lower-ordered id of its pair,
\* whatever the order of the documents in the list.
C21_SimilarityEdgeFromLowerId ==
    (Returned /\ DistinctIds) =>
        \A e \in EdgeSet(graph) :
            graph.edges[e].type = "similarity" =>
                /\ IdRank(e[1]) < IdRank(e[2])
                /\ <<e[2], e[1]>> \in EdgeSet(graph) =>
                       graph.edges[<<e[2], e[1]>>].type # "similarity"

\* C22: when the import of the Louvain library fails or the algorithm
\* fails with an error, the clusters of a graph (of two nodes at least) are
\* its undirected connected components.
C22_FallbackToComponents ==
    (Returned /\ louvain \in {"ImportError", "Exception"} /\ NumberOfNodes(graph) >= 2) =>
        {Range(result.clusters[k].nodes) : k \in DOMAIN result.clusters}
            = Range(ConnectedComponents(graph))

\* C25: nodes and edges are the counts of the graph; density * nodes *
\* (nodes - 1) = edges, with density 0 below 2 nodes; avg_degree * nodes =
\* 2 * edges; max_degree is the largest in-plus-out degree;
\* connected_components counts the components of the undirected projection;
\* every field is 0 on the empty graph.
C25_StatisticsOfGraph ==
    Returned =>
        LET st == result.statistics
            n == NumberOfNodes(graph)
            m == NumberOfEdges(graph)
            inout(x) == Cardinality({e \in EdgeSet(graph) : e[1] = x})
                            + Cardinality({e \in EdgeSet(graph) : e[2] = x})
        IN  /\ st.nodes = n
            /\ st.edges = m
            /\ IF n < 2 THEN st.density.num = 0
               ELSE st.density.num * n * (n - 1) = m * st.density.den
            /\ st.avg_degree.num * n = 2 * m * st.avg_degree.den
            /\ \A x \in NodeSet(graph) : inout(x) <= st.max_degree
            /\ n > 0 => \E x \in NodeSet(graph) : inout(x) = st.max_degree
            /\ st.connected_components
                   = Cardinality({Component(graph, x) : x \in NodeSet(graph)})
            /\ n = 0 => (st.density.num = 0 /\ st.avg_degree.num = 0 /\ st.max_degree = 0)

C25_Witness ==
    /\ Returned
    /\ result.statistics.nodes = 2
    /\ result.statistics.edges = 1
    /\ result.statistics.density.num = 1
    /\ result.statistics.connected_components = 1

\* C26: graph_data has one node entry per node and one edge entry per
\* edge, its lengths are the node and edge counts of the result and of the
\* statistics, and every exported edge is of kind citation or similarity
\* between exported node ids.
C26_ExportMatchesGraph ==
    Returned =>
        LET gd == result.graph_data
            ids == {gd.nodes[i].id : i \in DOMAIN gd.nodes}
        IN  /\ Len(gd.nodes) = result.nodes
            /\ Len(gd.nodes) = result.statistics.nodes
            /\ ids = NodeSet(graph)
            /\ Cardinality(ids) = Len(gd.nodes)
            /\ Len(gd.edges) = result.edges
            /\ Len(gd.edges) = result.statistics.edges
            /\ {<<gd.edges[i].source, gd.edges[i].target>> : i \in DOMAIN gd.edges}
                   = EdgeSet(graph)
            /\ \A i \in DOMAIN gd.edges :
                   /\ gd.edges[i].type \in {"citation", "similarity"}
                   /\ gd.edges[i].source \in ids
                   /\ gd.edges[i].target \in ids

C26_Witness ==
    /\ Returned
    /\ Len(result.graph_data.nodes) = 2
    /\ \E i \in DOMAIN result.graph_data.edges :
           result.graph_data.edges[i].source = result.graph_data.edges[i].target

(***************************************************************************)
(* The analyses of a built graph, run in any order.  Lines 75-94 call      *)
(* them in one order; here each is a call of its own on the graph the      *)
(* edge construction left.                                                 *)
(***************************************************************************)
Analyses == {"statistics", "clusters", "key_nodes", "evolution_paths", "graph_data"}

\* variant: to_undirected() replaces the graph by its symmetric closure
RECURSIVE Symmetrised(_, _)
Symmetrised(G, todo) ==
    IF todo = <<>> THEN G
    ELSE LET e == Head(todo)
             H == IF <<e[2], e[1]>> \in EdgeSet(G) THEN G
                  ELSE AddEdge(G, e[2], e[1], G.edges[e].type, G.edges[e].weight)
         IN  Symmetrised(H, Tail(todo))

GraphAfterInPlace(G, method) ==
    IF method \in {"statistics", "clusters"} THEN Symmetrised(G, G.order) ELSE G

\* self.graph after one analysis: every analysis reads the graph, and
\* to_undirected() (lines 222, 234, 280) returns a copy
GraphAfter(G, method) == G

\* the value the analysis returns on G, called with its defaults
Analysis(G, method, mode, partition, lib) ==
    CASE method = "statistics" -> CalculateGraphStatistics(G)
      [] method = "clusters" -> IdentifyClusters(G, DefaultMaxClusters, mode, partition)
      [] method = "key_nodes" -> IdentifyKeyNodes(G, DefaultTopN, lib)
      [] method = "evolution_paths" -> AnalyzeEvolutionPaths(G, DefaultMaxPaths)
      [] method = "graph_data" -> ExportGraphData(G)

\* the partitions the clustering may work with on G
Partitions(G, mode) ==
    IF mode = "ok" /\ NumberOfNodes(G) >= 2 THEN LouvainPartitions(G) ELSE {{}}

\* analyses: ids and references, a from the earliest year, b from the latest
DocsAnalyses ==
    {Doc(id, "", "", IF id = "a" THEN 2010 ELSE 2020, 0, r, {}) :
        id \in TwoIds, r \in RefSets({"b"})}

InitAnalyses ==
    /\ Pending
    /\ papers \in Lists(DocsAnalyses)
    /\ louvain \in {"ok", "ImportError"}
    /\ include_citations = TRUE
    /\ include_similarity = TRUE
    /\ max_nodes = None
    /\ similarity_threshold = DefaultThreshold
    /\ sklearn = NoFailure
    /\ nx_centrality = Uniform

AnalysesFrame ==
    /\ UNCHANGED <<papers, include_citations, include_similarity, max_nodes,
                   similarity_threshold, sklearn, louvain, nx_centrality,
                   result, key_nodes, invocations, direct, cursor>>
    /\ UNCHANGED <<threadVars, storeVars, tokenVars, coordinatorVars, limiterVars>>

\* lines 61-73: clear, _add_nodes and the two edge steps
ConstructEdges ==
    /\ pc = "called"
    /\ graph' = BuildGraph(graph, papers, include_citations, include_similarity,
                           max_nodes, similarity_threshold, sklearn)
    /\ pc' = "frozen"
    /\ done' = <<>>
    /\ AnalysesFrame

\* an analysis runs once, after the edge construction
Runnable(method) ==
    /\ pc = "frozen"
    /\ \A k \in DOMAIN done : done[k].method # method

Recorded(method, value) == Append(done, [method |-> method, value |-> value])

\* _calculate_graph_statistics()
CalculateGraphStatisticsCall ==
    /\ Runnable("statistics")
    /\ done' = Recorded("statistics", CalculateGraphStatistics(graph))
    /\ graph' = GraphAfter(graph, "statistics")
    /\ pc' = pc
    /\ AnalysesFrame

\* _identify_clusters()
IdentifyClustersDefaultCall ==
    /\ Runnable("clusters")
    /\ \E partition \in Partitions(graph, louvain) :
           done' = Recorded("clusters", IdentifyClusters(graph, DefaultMaxClusters,
                                                        louvain, partition))
    /\ graph' = GraphAfter(graph, "clusters")
    /\ pc' = pc
    /\ AnalysesFrame

\* _identify_key_nodes()
IdentifyKeyNodesDefaultCall ==
    /\ Runnable("key_nodes")
    /\ done' = Recorded("key_nodes", IdentifyKeyNodes(graph, DefaultTopN, nx_centrality))
    /\ graph' = GraphAfter(graph, "key_nodes")
    /\ pc' = pc
    /\ AnalysesFrame

\* _analyze_evolution_paths()
AnalyzeEvolutionPathsDefaultCall ==
    /\ Runnable("evolution_paths")
    /\ done' = Recorded("evolution_paths", AnalyzeEvolutionPaths(graph, DefaultMaxPaths))
    /\ graph' = GraphAfter(graph, "evolution_paths")
    /\ pc' = pc
    /\ AnalysesFrame

\* _export_graph_data()
ExportGraphDataCall ==
    /\ Runnable("graph_data")
    /\ done' = Recorded("graph_data", ExportGraphData(graph))
    /\ graph' = GraphAfter(graph, "graph_data")
    /\ pc' = pc
    /\ AnalysesFrame

NextAnalyses ==
    \/ ConstructEdges
    \/ CalculateGraphStatisticsCall
    \/ IdentifyClustersDefaultCall
    \/ IdentifyKeyNodesDefaultCall
    \/ AnalyzeEvolutionPathsDefaultCall
    \/ ExportGraphDataCall

SpecAnalyses == InitAnalyses /\ [][NextAnalyses]_vars

\* C27: once the edges are built, the analyses leave the nodes, the edges
\* and their attributes as they are, and each returns what it returns on
\* the freshly built graph, whatever analyses ran before it.
C27_AnalysesReadOnly ==
    pc = "frozen" =>
        /\ graph = FreshGraph
        /\ \A k \in DOMAIN done :
               \E partition \in Partitions(FreshGraph, louvain) :
                   done[k].value = Analysis(FreshGraph, done[k].method, louvain,
                                            partition, nx_centrality)

C27_Witness ==
    /\ pc = "frozen"
    /\ Len(done) = Cardinality(Analyses)
    /\ done[1].method = "graph_data"
    /\ done[2].method = "clusters"
    /\ done[Len(done)].method = "statistics"
    /\ NumberOfEdges(graph) = 1
    /\ graph.nodes = <<"b", "a">>

(***************************************************************************)
(* Direct calls of _identify_clusters(max_clusters) on graphs with more    *)
(* members than a cluster reports: a chain of citations with one cut.  The *)
(* graph is built paper by paper, one loop iteration a step.               *)
(***************************************************************************)
MaxMembers == 12

MemberIds == <<"n01", "n02", "n03", "n04", "n05", "n06", "n07",
               "n08", "n09", "n10", "n11", "n12", "n13", "n14">>

\* n papers, paper i citing paper i + 1 except after position cut
Chain(n, cut) ==
    [i \in 1..n |-> Doc(MemberIds[i], "", "", 0, 0,
                        IF i < n /\ i # cut THEN {MemberIds[i + 1]} ELSE {}, {})]

Chains == {Chain(n, cut) : n \in 0..MaxMembers, cut \in 0..MaxMembers}

ClusterLimits == (0..MaxTopN) \cup {DefaultMaxClusters}

\* partitions best_partition may return on a large graph: the components,
\* the single nodes, the components cut at the middle of the node order
SomePartitions(G) ==
    LET half == Range(Prefix(G.nodes, NumberOfNodes(G) \div 2))
        comps == Range(ConnectedComponents(G))
    IN  {comps,
         {{n} : n \in NodeSet(G)},
         ({C \cap half : C \in comps} \cup {C \ half : C \in comps}) \ {{}}}

InitChains ==
    /\ Pending
    /\ papers \in Chains
    /\ louvain \in {"ok", "ImportError", "Exception"}
    /\ include_citations = TRUE
    /\ include_similarity = TRUE
    /\ max_nodes = None
    /\ similarity_threshold = DefaultThreshold
    /\ sklearn = NoFailure
    /\ nx_centrality = Uniform

\* the caller's one direct call of _identify_clusters(max_clusters) on the
\* built graph
IdentifyClustersCall ==
    /\ pc = "frozen"
    /\ direct = NoDirect
    /\ \E max_clusters \in ClusterLimits :
           \E partition \in (IF louvain = "ok" /\ NumberOfNodes(graph) >= 2
                             THEN SomePartitions(graph) ELSE {{}}) :
               direct' = [method |-> "clusters",
                          arg |-> max_clusters,
                          partition |-> partition,
                          value |-> IdentifyClusters(graph, max_clusters,
                                                     louvain, partition)]
    /\ UNCHANGED <<papers, include_citations, include_similarity, max_nodes,
                   similarity_threshold, sklearn, louvain, nx_centrality,
                   graph, result, key_nodes, pc, invocations, done, cursor>>
    /\ UNCHANGED <<threadVars, storeVars, tokenVars, coordinatorVars, limiterVars>>

BuildFrame ==
    /\ UNCHANGED <<papers, include_citations, include_similarity, max_nodes,
                   similarity_threshold, sklearn, louvain, nx_centrality,
                   result, key_nodes, invocations, direct, done>>
    /\ UNCHANGED <<threadVars, storeVars, tokenVars, coordinatorVars, limiterVars>>

\* line 62: self.graph.clear()
ClearStep ==
    /\ pc = "called"
    /\ graph' = Clear(graph)
    /\ cursor' = 0
    /\ pc' = IF Truncate(papers, max_nodes) = <<>> THEN "similarity" ELSE "nodes"
    /\ BuildFrame

\* lines 102-117: one iteration of the loop of _add_nodes
AddNodeStep ==
    /\ pc = "nodes"
    /\ LET kept == Truncate(papers, max_nodes)
       IN  /\ graph' = AddNodes(graph, <<kept[cursor + 1]>>)
           /\ cursor' = IF cursor + 1 = Len(kept) THEN 0 ELSE cursor + 1
           /\ pc' = IF cursor + 1 = Len(kept) THEN "citations" ELSE "nodes"
    /\ BuildFrame

\* lines 128-147: one iteration of the loop of _add_citation_edges; no
\* edge leads to a node outside paper_ids, so the nodes stay those of line 126
CitePaperStep ==
    /\ pc = "citations"
    /\ LET kept == Truncate(papers, max_nodes)
       IN  /\ graph' = IF include_citations
                        THEN AddCitationEdgesFrom(graph, NodeSet(graph), <<kept[cursor + 1]>>)
                        ELSE graph
           /\ cursor' = IF cursor + 1 = Len(kept) THEN 0 ELSE cursor + 1
           /\ pc' = IF cursor + 1 = Len(kept) THEN "similarity" ELSE "citations"
    /\ BuildFrame

\* lines 72-73: _add_similarity_edges
SimilarityEdgesStep ==
    /\ pc = "similarity"
    /\ graph' = IF include_similarity
                 THEN AddSimilarityEdges(graph, Truncate(papers, max_nodes),
                                         similarity_threshold, sklearn)
                 ELSE graph
    /\ cursor' = 0
    /\ pc' = "frozen"
    /\ BuildFrame

NextClusters ==
    \/ ClearStep
    \/ AddNodeStep
    \/ CitePaperStep
    \/ SimilarityEdgesStep
    \/ IdentifyClustersCall

SpecClusters == InitChains /\ [][NextClusters]_vars

\* the groups the clustering of the last direct call worked with
Groups ==
    IF louvain = "ok" THEN direct.partition ELSE Range(ConnectedComponents(graph))

\* C23: a returned cluster reports at most 10 member ids, all of them
\* members of the cluster, and its size is the member count of the cluster;
\* the clusters come in non-increasing order of size, and at most
\* max_clusters of them.
C23_ClustersCappedAndSorted ==
    direct.method = "clusters" =>
        LET cs == direct.value
        IN  /\ Len(cs) <= direct.arg
            /\ \A k \in DOMAIN cs :
                   /\ Len(cs[k].nodes) <= MemberCap
                   /\ Cardinality(Range(cs[k].nodes)) = Len(cs[k].nodes)
                   /\ \E A \in Groups : /\ Range(cs[k].nodes) \subseteq A
                                        /\ cs[k].size = Cardinality(A)
            /\ \A k, l \in DOMAIN cs :
                   k < l => /\ cs[k].size >= cs[l].size
                            /\ Range(cs[k].nodes) \cap Range(cs[l].nodes) = {}

C23_Witness ==
    /\ direct.method = "clusters"
    /\ louvain = "ImportError"
    /\ direct.arg = 1
    /\ Len(ConnectedComponents(graph)) = 2
    /\ Len(direct.value) = 1
    /\ direct.value[1].size = MemberCap + 1
    /\ Len(direct.value[1].nodes) = MemberCap
    /\ graph.nodes[1] \notin Range(direct.value[1].nodes)

(***************************************************************************)
(* Direct calls of _analyze_evolution_paths(max_paths): one paper per id,  *)
(* the years and the references vary.                                      *)
(***************************************************************************)
IdList == <<"a", "b", "c">>

Triples ==
    {[i \in DOMAIN IdList |-> Doc(IdList[i], "", "", y[i], 0, r[i], {})] :
        y \in [DOMAIN IdList -> Years], r \in [DOMAIN IdList -> RefSets(Ids)]}

PathLimits == (0..MaxTopN) \cup {DefaultMaxPaths}

InitPaths ==
    /\ Pending
    /\ papers \in Triples
    /\ Defaults

\* the caller's one direct call of _analyze_evolution_paths(max_paths) on
\* the built graph
AnalyzeEvolutionPathsCall ==
    /\ pc = "frozen"
    /\ direct = NoDirect
    /\ \E max_paths \in PathLimits :
           direct' = [method |-> "evolution_paths",
                      arg |-> max_paths,
                      partition |-> {},
                      value |-> AnalyzeEvolutionPaths(graph, max_paths)]
    /\ UNCHANGED <<papers, include_citations, include_similarity, max_nodes,
                   similarity_threshold, sklearn, louvain, nx_centrality,
                   graph, result, key_nodes, pc, invocations, done, cursor>>
    /\ UNCHANGED <<threadVars, storeVars, tokenVars, coordinatorVars, limiterVars>>

NextPaths == ConstructEdges \/ AnalyzeEvolutionPathsCall

SpecPaths == InitPaths /\ [][NextPaths]_vars

\* the first nodes of a year, in node order
Sampled(year) ==
    Prefix(SelectSeq(graph.nodes, LAMBDA n : graph.attr[n].year = year), SamplePerYear)

PositionIn(s, x) == CHOOSE i \in DOMAIN s : s[i] = x

\* C24: a call returns at most max_paths paths; a path starts at one of the
\* first 3 nodes of the earliest year and ends at one of the first 3 nodes
\* of the latest year; the paths come in the order of the pairs (starts
\* outer, ends inner); every path follows directed edges of the graph.
C24_EvolutionPathsBounded ==
    direct.method = "evolution_paths" =>
        LET ps == direct.value
            first(k) == ps[k].nodes[1].id
            last(k) == ps[k].nodes[Len(ps[k].nodes)].id
        IN  /\ Len(ps) <= direct.arg
            /\ \A k \in DOMAIN ps :
                   /\ first(k) \in Range(Sampled(MinYear))
                   /\ last(k) \in Range(Sampled(MaxYear))
                   /\ \A i \in 1..(Len(ps[k].nodes) - 1) :
                          <<ps[k].nodes[i].id, ps[k].nodes[i + 1].id>> \in EdgeSet(graph)
            /\ \A k, l \in DOMAIN ps :
                   k < l =>
                       \/ PositionIn(Sampled(MinYear), first(k))
                              < PositionIn(Sampled(MinYear), first(l))
                       \/ /\ first(k) = first(l)
                          /\ PositionIn(Sampled(MaxYear), last(k))
                                 < PositionIn(Sampled(MaxYear), last(l))

(***************************************************************************)
(* The tasks of CoordinatorAgent (src/src/agents/coordinator_agent.py).    *)
(* submit_task schedules _execute_task on the event loop; the coroutine    *)
(* runs from one await to the next without interruption, and cancel_task   *)
(* and get_task_result run between two such steps.  A task id is submitted *)
(* once.  Progress is in percent; results holds the stages that returned.  *)
(***************************************************************************)
Stages == 1..7

\* task.progress after stage k (lines 144-170)
StageProgress == <<10, 40, 60, 75, 80, 90, 100>>

Terminal == {"completed", "failed", "cancelled"}

\* ResearchTask.__init__ and the coroutine create_task scheduled for it
NewTask(trl_assessment, generate_hypotheses) ==
    [status |-> "pending",
     progress |-> 0,
     results |-> {},
     errors |-> 0,
     trl_assessment |-> trl_assessment,
     generate_hypotheses |-> generate_hypotheses,
     pc |-> "scheduled",
     stage |-> 0]

\* stage 5 is awaited only with trl_assessment, stage 6 only with
\* generate_hypotheses
Awaited(task, k) ==
    /\ k = 5 => task.trl_assessment
    /\ k = 6 => task.generate_hypotheses

\* _execute_task from the return of stage k to its next await or its end
RECURSIVE Advance(_, _)
Advance(task, k) ==
    LET t == [task EXCEPT !.progress = StageProgress[k]]
    IN  IF k = Len(StageProgress)
        THEN [t EXCEPT !.status = "completed", !.pc = "finished"]
        ELSE IF Awaited(t, k + 1) THEN [t EXCEPT !.stage = k + 1]
        ELSE Advance(t, k + 1)

\* get_task_result(task_id): the results of a completed task, else None
GetTaskResult(task_id) ==
    IF task_id \in DOMAIN research_tasks /\ research_tasks[task_id].status = "completed"
    THEN <<research_tasks[task_id].results>>
    ELSE None

CoordinatorFrame ==
    UNCHANGED <<agentVars, threadVars, storeVars, tokenVars, callVars, limiterVars>>

\* submit_task(task), lines 114-130
SubmitTask ==
    /\ \E task_id \in TaskIds \ DOMAIN research_tasks :
           \E trl_assessment \in BOOLEAN, generate_hypotheses \in BOOLEAN :
               research_tasks' =
                   [i \in DOMAIN research_tasks \cup {task_id} |->
                       IF i = task_id THEN NewTask(trl_assessment, generate_hypotheses)
                       ELSE research_tasks[i]]
    /\ UNCHANGED cancel_returned
    /\ CoordinatorFrame

\* _execute_task, lines 139-143: from its start to the await of stage 1
ExecuteStart ==
    /\ \E task_id \in DOMAIN research_tasks :
           /\ research_tasks[task_id].pc = "scheduled"
           /\ research_tasks' = [research_tasks EXCEPT ![task_id].status = "running",
                                                       ![task_id].pc = "stage",
                                                       ![task_id].stage = 1]
    /\ UNCHANGED cancel_returned
    /\ CoordinatorFrame

\* the awaited stage returns: lines 144-175 up to the next await
StageReturns ==
    /\ \E task_id \in DOMAIN research_tasks :
           LET task == research_tasks[task_id]
           IN  /\ task.pc = "stage"
               /\ research_tasks' =
                      [research_tasks EXCEPT ![task_id] =
                          Advance([task EXCEPT !.results = @ \cup {task.stage}], task.stage)]
    /\ UNCHANGED cancel_returned
    /\ CoordinatorFrame

\* the awaited stage raises: lines 182-185
StageRaises ==
    /\ \E task_id \in DOMAIN research_tasks :
           /\ research_tasks[task_id].pc = "stage"
           /\ research_tasks' = [research_tasks EXCEPT ![task_id].status = "failed",
                                                       ![task_id].errors = @ + 1,
                                                       ![task_id].pc = "finished"]
    /\ UNCHANGED cancel_returned
    /\ CoordinatorFrame

\* cancel_task(task_id) returning True, lines 606-610; it returns False and
\* changes nothing for an unknown id and for a task in another status
CancelResearchTask ==
    /\ \E task_id \in DOMAIN research_tasks :
           /\ research_tasks[task_id].status \in {"pending", "running"}
           /\ research_tasks' = [research_tasks EXCEPT ![task_id].status = "cancelled"]
           /\ cancel_returned' = cancel_returned \cup {task_id}
    /\ CoordinatorFrame

InitCoordinator == AgentUnused /\ NoStore /\ NoToken /\ NoCalls /\ NoCoordinator /\ NoLimiter

NextCoordinator ==
    \/ SubmitTask
    \/ ExecuteStart
    \/ StageReturns
    \/ StageRaises
    \/ CancelResearchTask

SpecCoordinator == InitCoordinator /\ [][NextCoordinator]_vars

\* C28: once cancel_task(task_id) has returned True, the status of the task
\* stays cancelled, its _execute_task sets neither completed nor failed, and
\* get_task_result(task_id) returns None.
C28_CancelledStaysCancelled ==
    \A task_id \in cancel_returned :
        /\ research_tasks[task_id].status = "cancelled"
        /\ GetTaskResult(task_id) = None

\* pending, then running, then a terminal status
StatusRank(status) ==
    IF status = "pending" THEN 0 ELSE IF status = "running" THEN 1 ELSE 2

\* C29: the status of a task moves forward only, from pending to running to
\* a terminal status that it keeps; its progress never decreases; a
\* completed task has progress 1.0.
C29_StatusMovesForward ==
    [][\A task_id \in DOMAIN research_tasks :
           LET old == research_tasks[task_id]
               new == research_tasks'[task_id]
           IN  /\ StatusRank(old.status) <= StatusRank(new.status)
               /\ old.status \in Terminal => new.status = old.status
               /\ old.progress <= new.progress
               /\ new.status = "completed" => new.progress = StageProgress[Len(StageProgress)]]_vars

(***************************************************************************)
(* RateLimiter (src/src/utils/auth.py).  Threads call is_allowed with the  *)
(* same max_requests and window_seconds; the body runs under self.lock.    *)
(* The clock is time.time() in whole seconds and does not run backwards.   *)
(***************************************************************************)
MaxRequests == 1
WindowSeconds == 2

LimiterThreads == {"th1", "th2"}
LimiterKeys == {"u1", "u2"}

Idle == [pc |-> "idle", key |-> "", current_time |-> 0, returned |-> None]

\* variant: the body runs without waiting for the lock
LockIgnored(holder) == TRUE

\* "with self.lock" is entered when no thread holds the lock
LockFree(holder) == holder = None

\* [req_time for req_time in self.requests[key] if req_time > window_start]
Pruned(times, current_time, window_seconds) ==
    SelectSeq(times, LAMBDA req_time : req_time > current_time - window_seconds)

LimiterFrame ==
    UNCHANGED <<agentVars, threadVars, storeVars, tokenVars, callVars, coordinatorVars>>

\* a thread calls is_allowed(key, max_requests, window_seconds)
IsAllowedCall ==
    /\ \E th \in LimiterThreads, key \in LimiterKeys :
           /\ callers[th].pc = "idle"
           /\ callers' = [callers EXCEPT ![th] = [Idle EXCEPT !.pc = "called", !.key = key]]
    /\ UNCHANGED <<requests, lock, granted>>
    /\ LimiterFrame

\* line 61: with self.lock
Acquire ==
    /\ \E th \in LimiterThreads :
           /\ callers[th].pc = "called"
           /\ LockFree(lock)
           /\ lock' = <<th>>
           /\ callers' = [callers EXCEPT ![th].pc = "locked"]
    /\ UNCHANGED <<requests, granted>>
    /\ LimiterFrame

\* lines 62-69: the time is read and the expired requests are dropped
Prune ==
    /\ \E th \in LimiterThreads :
           /\ callers[th].pc = "locked"
           /\ requests' = [requests EXCEPT ![callers[th].key] =
                              Pruned(@, now, WindowSeconds)]
           /\ callers' = [callers EXCEPT ![th].pc = "pruned", ![th].current_time = now]
    /\ UNCHANGED <<lock, granted>>
    /\ LimiterFrame

\* lines 72-74: the limit is reached, the call returns False
Deny ==
    /\ \E th \in LimiterThreads :
           /\ callers[th].pc = "pruned"
           /\ Len(requests[callers[th].key]) >= MaxRequests
           /\ callers' = [callers EXCEPT ![th].pc = "idle",
                                         ![th].current_time = 0,
                                         ![th].returned = <<FALSE>>]
    /\ lock' = None
    /\ UNCHANGED <<requests, granted>>
    /\ LimiterFrame

\* lines 76-78: the request is recorded, the call returns True
Record ==
    /\ \E th \in LimiterThreads :
           /\ callers[th].pc = "pruned"
           /\ Len(requests[callers[th].key]) < MaxRequests
           /\ requests' = [requests EXCEPT ![callers[th].key] =
                              Append(@, callers[th].current_time)]
           /\ granted' = [granted EXCEPT ![callers[th].key] =
                             Append(@, callers[th].current_time)]
           /\ callers' = [callers EXCEPT ![th].pc = "idle",
                                         ![th].current_time = 0,
                                         ![th].returned = <<TRUE>>]
    /\ lock' = None
    /\ LimiterFrame

\* get_remaining(key, max_requests, window_seconds), lines 97-107, by a
\* thread that is in no other call: the whole body under the lock
GetRemaining ==
    /\ LockFree(lock)
    /\ \E key \in LimiterKeys :
           /\ requests[key] # Pruned(requests[key], now, WindowSeconds)
           /\ requests' = [requests EXCEPT ![key] = Pruned(@, now, WindowSeconds)]
    /\ UNCHANGED <<lock, callers, granted>>
    /\ LimiterFrame

InitLimiter ==
    /\ AgentUnused /\ NoStore /\ NoToken /\ NoCalls /\ NoCoordinator
    /\ requests = [key \in LimiterKeys |-> <<>>]
    /\ lock = None
    /\ callers = [th \in LimiterThreads |-> Idle]
    /\ granted = [key \in LimiterKeys |-> <<>>]

NextLimiter ==
    \/ IsAllowedCall
    \/ Acquire
    \/ Prune
    \/ Deny
    \/ Record
    \/ GetRemaining
    \/ Tick

SpecLimiter == InitLimiter /\ [][NextLimiter]_vars

\* the calls for key that returned True at a time in (start, start + WindowSeconds]
GrantedWithin(key, start) ==
    {i \in DOMAIN granted[key] :
        start < granted[key][i] /\ granted[key][i] <= start + WindowSeconds}

Occurrences(times, t) == Cardinality({i \in DOMAIN times : times[i] = t})

\* C30: for every key, under every interleaving of the calls, at most
\* max_requests calls returned True within any window of window_seconds,
\* and only calls that returned True are recorded.
C30_LimitHoldsUnderInterleaving ==
    \A key \in LimiterKeys :
        /\ \A start \in (0 - WindowSeconds)..MaxTime :
               Cardinality(GrantedWithin(key, start)) <= MaxRequests
        /\ \A t \in 0..MaxTime :
               Occurrences(requests[key], t) <= Occurrences(granted[key], t)

C30_Witness ==
    \E key \in LimiterKeys :
        /\ Len(granted[key]) = MaxRequests + 1
        /\ \E th \in LimiterThreads :
               /\ callers[th].pc = "idle"
               /\ callers[th].key = key
               /\ callers[th].returned = <<FALSE>>
        /\ \E th \in LimiterThreads :
               /\ callers[th].pc = "pruned"
               /\ callers[th].key = key

====
